---- MODULE Spec2Model ----
(***************************************************************************)
(* Model of Griber's acquisition-and-caching core: downloadAndSave and     *)
(* writeFile (the persisted artifact), SingleQuery / RangeQuery (the       *)
(* two-phase read-through), getOrLoadFileCache / loadFileToCache /         *)
(* ClearDateRangeCache (the in-memory fileCache behind cacheMutex) and     *)
(* DateRangeQuery.  Every inbound HTTP request runs one query in its own   *)
(* goroutine; the requests interleave at every access to the shared state  *)
(* (the files under tmp/, fileCache, cacheMutex).                          *)
(*                                                                         *)
(* Coordinates are fixed-point numbers in eighths of a degree (all the     *)
(* grid constants are multiples of 1/8, so the float arithmetic of the     *)
(* source is exact on them).  A []float64 is held as [len, src]: its       *)
(* length and the field of the run it was decoded from; element i is       *)
(* RemoteValue(src, i).                                                    *)
(***************************************************************************)
EXTENDS Integers, Sequences, FiniteSets, TLC

(* ------------------------------------------------------------------ *)
(* Bounds of the model                                                 *)
(* ------------------------------------------------------------------ *)

\* Number of HTTP requests served in one behaviour.
MaxRequests == 2

\* Number of consecutive calendar days the requests may ask for.
NumDates == 3

\* Number of times the system refuses to create a file or to write to it
\* in one behaviour.
MaxFaults == 1

\* fileCache's bound (100 in the source), scaled down so that the
\* overflow branch of getOrLoadFileCache is reached.
maxCacheSize == 2

(* ------------------------------------------------------------------ *)
(* Grid geometry (unnamed/part_003 lines 67-75)                        *)
(* ------------------------------------------------------------------ *)

\* d degrees in eighths of a degree.
Deg(d) == d * 8

Ni == 1440
Nj == 721
TotalPoints == 1038240
LatFirst == Deg(90)
LatStep == Deg(1) \div 4
LonFirst == Deg(180)
LonStep == Deg(1) \div 4

\* A remainder by more than y.
Mod_Wide(x, y) ==
    LET w == y + Deg(1) IN IF x >= 0 THEN x % w ELSE -((-x) % w)

\* math.Mod(x, y) for y > 0: the result has the sign of x.
Mod(x, y) == IF x >= 0 THEN x % y ELSE -((-x) % y)

\* math.Round(n / d) for d > 0: to the nearest integer, halves away from zero.
RoundDiv(n, d) ==
    IF n >= 0 THEN (2 * n + d) \div (2 * d)
    ELSE -((2 * (-n) + d) \div (2 * d))

\* The offset of the longitude from LonFirst, within one turn (lines 80-90).
LonOffset(targetLon) ==
    LET m == Mod(targetLon, Deg(360))
        normalizedLon == IF m < 0 THEN m + Deg(360) ELSE m
        o == normalizedLon - LonFirst
    IN  IF o < 0 THEN o + Deg(360) ELSE o

\* A column that is not taken modulo Ni.
Column_NoWrap(targetLon) == RoundDiv(LonOffset(targetLon), LonStep)

\* i, the nearest column (lines 92-94).
Column(targetLon) == RoundDiv(LonOffset(targetLon), LonStep) % Ni

\* A row that is not held between the poles.
Row_NoClamp(targetLat) == RoundDiv(LatFirst - targetLat, LatStep)

\* j, the nearest row, held between the poles (lines 96-107).
Row(targetLat) ==
    LET j0 == RoundDiv(LatFirst - targetLat, LatStep)
        j1 == IF j0 < 0 THEN 0 ELSE j0
    IN  IF j1 >= Nj THEN Nj - 1 ELSE j1

\* GetIndexForCoord: [err |-> BOOLEAN, index |-> Int].
GetIndexForCoord(targetLat, targetLon) ==
    LET i == Column(targetLon)
        j == Row(targetLat)
        index == (j * Ni) + i
    IN  IF index < 0 \/ index >= TotalPoints
        THEN [err |-> TRUE, index |-> -1]
        ELSE [err |-> FALSE, index |-> index]

(* ------------------------------------------------------------------ *)
(* Calendar dates and generateDateRange                                *)
(* ------------------------------------------------------------------ *)

\* A date string "YYYYMMDD" is the integer its eight digits spell; a string
\* that is not eight digits is a number outside 0..99999999.

\* A calendar without leap years.
IsLeap_Never(y) == FALSE

\* The leap years of time.Time.
IsLeap(y) == (y % 4 = 0 /\ y % 100 # 0) \/ y % 400 = 0

\* The days of month m of year y.
DaysIn(y, m) ==
    IF m = 2 THEN (IF IsLeap(y) THEN 29 ELSE 28)
    ELSE IF m \in {4, 6, 9, 11} THEN 30 ELSE 31

\* time.Parse("20060102", s): the fields, or an error when the string is
\* not eight digits or names no day of the calendar.
Parse(s) ==
    LET y == s \div 10000
        m == (s \div 100) % 100
        d == s % 100
    IN  IF s < 0 \/ s > 99999999 \/ m < 1 \/ m > 12 \/ d < 1 \/ d > DaysIn(y, m)
        THEN [err |-> TRUE, y |-> 0, m |-> 0, d |-> 0]
        ELSE [err |-> FALSE, y |-> y, m |-> m, d |-> d]

\* t.Format("20060102").
Format(t) == t.y * 10000 + t.m * 100 + t.d

\* t.AddDate(0, 0, 1).
AddDay(t) ==
    IF t.d < DaysIn(t.y, t.m) THEN [t EXCEPT !.d = @ + 1]
    ELSE IF t.m < 12 THEN [t EXCEPT !.m = @ + 1, !.d = 1]
    ELSE [t EXCEPT !.y = @ + 1, !.m = 1, !.d = 1]

\* a.After(b).
After(a, b) ==
    \/ a.y > b.y
    \/ a.y = b.y /\ a.m > b.m
    \/ a.y = b.y /\ a.m = b.m /\ a.d > b.d

\* The loop of generateDateRange (lines 318-323): format and step while
\* current is not after end.
RECURSIVE DateLoop(_, _, _)
DateLoop(current, end, dates) ==
    IF After(current, end) THEN dates
    ELSE DateLoop(AddDay(current), end, Append(dates, Format(current)))

\* generateDateRange: both dates are parsed, a start after the end is an
\* error, and the dates from start to end are listed.
generateDateRange(startDate, endDate) ==
    LET start == Parse(startDate)
        end == Parse(endDate)
    IN  IF start.err \/ end.err \/ After(start, end)
        THEN [err |-> TRUE, dates |-> << >>]
        ELSE [err |-> FALSE, dates |-> DateLoop(start, end, << >>)]

(* ------------------------------------------------------------------ *)
(* Run keys, arrays, records                                           *)
(* ------------------------------------------------------------------ *)

\* The first day the requests ask for; the days that follow it cross the
\* end of February of a leap year.
FirstDate == 20240228

\* NumDates days from FirstDate on.
RECURSIVE DaysFrom(_, _)
DaysFrom(t, n) == IF n = 0 THEN << >> ELSE <<Format(t)>> \o DaysFrom(AddDay(t), n - 1)

SeriesDates == DaysFrom(Parse(FirstDate), NumDates)

Dates == { SeriesDates[k] : k \in 1..NumDates }

\* The batches the requests ask for.
Batches == {"00z"}

Keys == Dates \X Batches

Fields == {"10u", "10v"}

\* A nil or empty []float64.
NilArr == [len |-> 0, src |-> <<0, "", "">>]

\* The values the remote object holds for a field of a run.
FullArr(key, f) == [len |-> TotalPoints, src |-> <<key[1], key[2], f>>]

\* A decoded array cut short: the decoder gives what the chunk holds, and
\* nothing in the pipeline compares its length with TotalPoints.
ShortArr(key, f) == [len |-> 1, src |-> <<key[1], key[2], f>>]

\* Element i (0-based) of the field src of the remote object.
RemoteValue(src, i) ==
    IF src[3] = "zero" THEN 0
    ELSE (src[1] + (IF src[3] = "10v" THEN 3 ELSE 0) + (i % 2)) % 5

\* An array of TotalPoints zeros: a field of still air.
ZeroArr == [len |-> TotalPoints, src |-> <<0, "", "zero">>]

\* arr[i] for 0 <= i < arr.len.
At(arr, i) == RemoteValue(arr.src, i)

(* ------------------------------------------------------------------ *)
(* The artifact file tmp/<date>-<batch>.json                           *)
(* ------------------------------------------------------------------ *)

\* The file's bytes are held as a sequence of chunks: the serialized record
\* is two chunks, the "10u" member and the "10v" member (json.Marshal
\* writes a map's keys in sorted order).  Hole is a run of bytes that is no
\* member: zero bytes behind a truncation, or damage.
Hole == [f |-> "hole", arr |-> NilArr]

Missing == [st |-> "missing", data |-> <<>>]

\* A path that cannot be opened (wrong permissions, a directory).
Unreadable == [st |-> "unreadable", data |-> <<>>]

FileOf(data) == [st |-> "file", data |-> data]

\* json.Marshal(processedMap), cache.go line 52.
Marshal(u, v) == << [f |-> "10u", arr |-> u], [f |-> "10v", arr |-> v] >>

\* json.Unmarshal(content, &data) into struct{U `10u`; V `10v`}.
Unmarshal(data) ==
    IF /\ Len(data) = 2
       /\ data[1].f = "10u"
       /\ data[2].f = "10v"
    THEN [ok |-> TRUE, U |-> data[1].arr, V |-> data[2].arr]
    ELSE [ok |-> FALSE, U |-> NilArr, V |-> NilArr]

\* file.Write of one chunk at the writer's own offset (0-based) into the
\* bytes the file holds now: the bytes between the file's end and the
\* offset read as zeros.
WriteAt(data, off, chunk) ==
    LET n == IF Len(data) > off + 1 THEN Len(data) ELSE off + 1
    IN  [i \in 1..n |->
            IF i = off + 1 THEN chunk
            ELSE IF i <= Len(data) THEN data[i]
            ELSE Hole]

(* ------------------------------------------------------------------ *)
(* The acquisition pipeline of downloadAndSave, up to json.Marshal     *)
(* ------------------------------------------------------------------ *)

\* The product variant of a batch (cache.go lines 14-22): "" stands for
\* objectName and IndexPath left empty.
ProductVariant(batch) ==
    IF batch = "00z" \/ batch = "12z" THEN "oper"
    ELSE IF batch = "06z" \/ batch = "18z" THEN "scda"
    ELSE ""

\* The bucket of the remote objects (main.go line 8).
bucketName == "ecmwf-open-data"

\* The text of a date: the model holds the yyyymmdd string of a request as
\* the number its digits write.
DateText(date) == ToString(date)

\* filepath.Join(elem...): the non-empty elements, separated by "/".
RECURSIVE Join(_)
Join(elem) ==
    IF elem = << >> THEN ""
    ELSE LET rest == Join(Tail(elem))
         IN  IF Head(elem) = "" THEN rest
             ELSE IF rest = "" THEN Head(elem)
             ELSE Head(elem) \o "/" \o rest

\* makeRelative(date, batch, suffix, prot).
makeRelative(date, batch, suffix, prot) ==
    LET fileName == date \o SubSeq(batch, 1, 2) \o "0000-0h-" \o prot \o "-fc" \o suffix
    IN  Join(<<date, batch, "ifs/0p25", prot, fileName>>)

\* makeAbs(bucketName, date, batch, suffix, prot): the joined path keeps
\* the leading "/" of basePath.
makeAbs(bucket, date, batch, suffix, prot) ==
    LET basePath == "/" \o bucket
        relative == makeRelative(date, batch, suffix, prot)
    IN  Join(<<basePath, relative>>)

\* makeUrl(domain, path): url.URL{Scheme: "https", Host, Path}.String().
makeUrl(domain, path) == "https://" \o domain \o path

\* downloadAndSave lines 12-24: objectName, IndexPath and indexUrl of a
\* run.  For a batch of neither group the two names stay empty, and
\* indexUrl is built all the same.
RemoteNames(date, batch) ==
    LET prot == ProductVariant(batch)
        objectName == IF prot = "" THEN ""
                      ELSE makeRelative(DateText(date), batch, ".grib2", prot)
        IndexPath == IF prot = "" THEN ""
                     ELSE makeAbs(bucketName, DateText(date), batch, ".index", prot)
    IN  [objectName |-> objectName, IndexPath |-> IndexPath,
         indexUrl |-> makeUrl("storage.googleapis.com", IndexPath)]

\* downloadAndSave lines 10-28: the names, the requests sent to the remote
\* side (queryIndex is called whatever the batch) and the error returned
\* when the index cannot be fetched.
QueryRun(date, batch, indexOk) ==
    LET names == RemoteNames(date, batch)
    IN  [objectName |-> names.objectName, IndexPath |-> names.IndexPath,
         requests |-> <<names.indexUrl>>,
         err |-> IF indexOk THEN "" ELSE "fail to query index"]

\* One line of the index document.  json is FALSE for a line that is no
\* JSON; param is "<absent>" for a line without a string "param".
IndexLine(param, levtype) == [json |-> TRUE, param |-> param, levtype |-> levtype]
MalformedLine == [json |-> FALSE, param |-> "", levtype |-> ""]

\* The index documents the remote side may answer with.
IndexDocs ==
    { << IndexLine("10u", "sfc"), IndexLine("2t", "sfc"), IndexLine("10v", "sfc") >>,
      << IndexLine("10v", "sfc"), IndexLine("10u", "sfc") >>,
      << IndexLine("10u", "sfc") >>,
      << IndexLine("2t", "sfc"), IndexLine("10u", "pl") >>,
      << >>,
      << IndexLine("10u", "sfc"), MalformedLine >>,
      << IndexLine("<absent>", "sfc") >> }

\* parseIndexResponse: [st |-> "ok" | "err" | "panic", chunks |-> the
\* ParamName of every selected line, in the document's order].
RECURSIVE parseIndexResponse(_)
parseIndexResponse(index) ==
    IF index = << >> THEN [st |-> "ok", chunks |-> << >>]
    ELSE LET line == Head(index)
             rest == parseIndexResponse(Tail(index))
         IN  IF ~line.json THEN [st |-> "err", chunks |-> << >>]
             ELSE IF line.param = "<absent>" THEN [st |-> "panic", chunks |-> << >>]
             ELSE IF rest.st # "ok" THEN rest
             ELSE IF (line.param = "10u" \/ line.param = "10v") /\ line.levtype = "sfc"
                  THEN [st |-> "ok", chunks |-> <<line.param>> \o rest.chunks]
                  ELSE rest

\* What grib_dump -j printed for a chunk, as unwarpGribRawJsonValue sees it.
Raw(kind, arr) == [kind |-> kind, arr |-> arr]

\* gribJsonMap[f] for a field the map has no entry for: the empty string.
AbsentRaw == Raw("absent", NilArr)

\* The outcomes of fetchAndProcessGribChunk for field f of run key:
\* "fetcherr" is any of its error returns, the others are decoder outputs.
\* The shapes the decoder accepts without the full grid (no "values"
\* record, a short list) are tried on the "10u" chunk.
ChunkOutcomes(key, f) ==
    { Raw("fetcherr", NilArr),
      Raw("badjson", NilArr),
      Raw("nomessages", NilArr),
      Raw("nonfloat", NilArr),
      Raw("values", FullArr(key, f)) }
    \cup (IF f = "10u"
          THEN { Raw("emptyfirst", NilArr), Raw("novalues", NilArr),
                 Raw("values", ShortArr(key, f)) }
          ELSE {})

\* getGribData: [st |-> "ok" | "err", map |-> gribJsonMap].
RECURSIVE getGribDataLoop(_, _, _)
getGribDataLoop(gribChunk, outcome, resultJsonMap) ==
    IF gribChunk = << >> THEN [st |-> "ok", map |-> resultJsonMap]
    ELSE LET chunk == Head(gribChunk)
         IN  IF outcome[chunk].kind = "fetcherr"
             THEN [st |-> "err", map |-> resultJsonMap]
             ELSE getGribDataLoop(Tail(gribChunk), outcome,
                                  [resultJsonMap EXCEPT ![chunk] = outcome[chunk]])

getGribData(gribChunk, clientOk, outcome) ==
    IF ~clientOk THEN [st |-> "err", map |-> [f \in Fields |-> AbsentRaw]]
    ELSE getGribDataLoop(gribChunk, outcome, [f \in Fields |-> AbsentRaw])

\* unwarpGribRawJsonValue: [st |-> "ok" | "err" | "panic", values].
\* json.Unmarshal fails on the empty string and on text that is no JSON;
\* the unchecked type assertions panic on a document without "messages"
\* and on a value that is no float64; a first message without a "values"
\* record leaves values nil and returns no error.
unwarpGribRawJsonValue(raw) ==
    CASE raw.kind \in {"absent", "badjson"} -> [st |-> "err", values |-> NilArr]
      [] raw.kind \in {"nomessages", "nonfloat"} -> [st |-> "panic", values |-> NilArr]
      [] raw.kind \in {"emptyfirst", "novalues"} -> [st |-> "ok", values |-> NilArr]
      [] OTHER -> [st |-> "ok", values |-> raw.arr]

\* What the outside world answers during one run of the pipeline: whether
\* the index is fetched, the index document, whether a storage client is
\* made, the outcome of each chunk, whether json.Marshal succeeds.
WorldOf(indexOk, doc, clientOk, chunk, marshalOk) ==
    [indexOk |-> indexOk, doc |-> doc, clientOk |-> clientOk,
     chunk |-> chunk, marshalOk |-> marshalOk]

ChunkAnswers(key) ==
    { [f \in Fields |-> IF f = "10u" THEN cu ELSE cv] :
        cu \in ChunkOutcomes(key, "10u"), cv \in ChunkOutcomes(key, "10v") }

GoodAnswer(key) == [f \in Fields |-> Raw("values", FullArr(key, f))]

\* An answer is not asked for once an earlier step has failed, so the
\* later answers vary only under the earlier steps' successes.
Worlds(key) ==
    { WorldOf(FALSE, << >>, TRUE, GoodAnswer(key), TRUE) }
    \cup { WorldOf(TRUE, doc, FALSE, GoodAnswer(key), TRUE) : doc \in IndexDocs }
    \cup { WorldOf(TRUE, doc, TRUE, ans, TRUE) : doc \in IndexDocs, ans \in ChunkAnswers(key) }
    \cup { WorldOf(TRUE, doc, TRUE, GoodAnswer(key), FALSE) : doc \in IndexDocs }

Failed(stage) == [st |-> "err", stage |-> stage, u |-> NilArr, v |-> NilArr]
Panicked(stage) == [st |-> "panic", stage |-> stage, u |-> NilArr, v |-> NilArr]

\* downloadAndSave lines 10-55: [st |-> "ok" | "err" | "panic", stage |->
\* the step that failed, u, v |-> the values to serialize].
Pipeline(w) ==
    LET gribChunk == parseIndexResponse(w.doc)
        gribJsonMap == getGribData(gribChunk.chunks, w.clientOk, w.chunk)
        uValues == unwarpGribRawJsonValue(gribJsonMap.map["10u"])
        vValues == unwarpGribRawJsonValue(gribJsonMap.map["10v"])
    IN  IF ~w.indexOk THEN Failed("queryIndex")
        ELSE IF gribChunk.st = "err" THEN Failed("parseIndexResponse")
        ELSE IF gribChunk.st = "panic" THEN Panicked("parseIndexResponse")
        ELSE IF gribJsonMap.st = "err" THEN Failed("getGribData")
        ELSE IF uValues.st = "err" THEN Failed("unwrap 10u")
        ELSE IF uValues.st = "panic" THEN Panicked("unwrap 10u")
        ELSE IF vValues.st = "err" THEN Failed("unwrap 10v")
        ELSE IF vValues.st = "panic" THEN Panicked("unwrap 10v")
        ELSE IF ~w.marshalOk THEN Failed("json.Marshal")
        ELSE [st |-> "ok", stage |-> "", u |-> uValues.values, v |-> vValues.values]

(* ------------------------------------------------------------------ *)
(* Reading the artifact                                                *)
(* ------------------------------------------------------------------ *)

\* The path downloadAndSave writes (cache.go lines 57-58):
\* fmt.Sprintf("%s-%s.json", date, batch), joined to "tmp".
FilePath_NoDir(date, batch) == DateText(date) \o "-" \o batch \o ".json"

FilePath(date, batch) ==
    LET fileName == DateText(date) \o "-" \o batch \o ".json"
    IN  Join(<<"tmp", fileName>>)

\* filepath.Join("tmp", date+"-"+batch+".json"): the path SingleQuery,
\* RangeQuery and DateRangeQuery read, and the key of fileCache.
ReadPath(date, batch) == Join(<<"tmp", (DateText(date) \o "-") \o (batch \o ".json")>>)

\* The paths the service writes or reads for the keys asked for.
Paths == {FilePath(k[1], k[2]) : k \in Keys} \cup {ReadPath(k[1], k[2]) : k \in Keys}

\* The run a path belongs to.
KeyOf(p) == CHOOSE k \in Keys : FilePath(k[1], k[2]) = p \/ ReadPath(k[1], k[2]) = p

\* os.ReadFile: err is "" on success, "notexist" when os.IsNotExist holds
\* of the error, "other" for any other error.
ReadFile(file) ==
    CASE file.st = "missing" -> [err |-> "notexist", content |-> << >>]
      [] file.st = "unreadable" -> [err |-> "other", content |-> << >>]
      [] OTHER -> [err |-> "", content |-> file.data]

\* The coordinates the point and date-series queries are asked for: they
\* map to the indices 0 and 1.
Coords == { <<Deg(90), Deg(180)>>, <<Deg(90), Deg(180) + 2>> }

\* readAndParseFile, the reader of SingleQuery: its source is not among
\* the files of src/; it is taken to read and parse as readAndParseRangeFile
\* does and to answer the point query of section 4.7 of the specification
\* (the two values at the mapped index, or a bounds error).
readAndParseFile(file, lat, lon) ==
    LET rd == ReadFile(file)
        data == Unmarshal(rd.content)
        idx == GetIndexForCoord(lat, lon)
        bad == [err |-> TRUE, U |-> 0, V |-> 0]
    IN  IF rd.err # "" THEN bad
        ELSE IF ~data.ok THEN bad
        ELSE IF data.U.len = 0 \/ data.V.len = 0 THEN bad
        ELSE IF idx.err THEN bad
        ELSE IF idx.index >= data.U.len \/ idx.index >= data.V.len THEN bad
        ELSE [err |-> FALSE, U |-> At(data.U, idx.index), V |-> At(data.V, idx.index)]

\* A sign that never turns.
getSign_Up(x) == 1

\* getSign
getSign(x) == IF x >= 0 THEN 1 ELSE -1

Abs(x) == IF x >= 0 THEN x ELSE -x

\* for lon > 180 { lon -= 360 }; for lon < -180 { lon += 360 }
RECURSIVE NormalizeLon(_)
NormalizeLon(lon) ==
    IF lon > Deg(180) THEN NormalizeLon(lon - Deg(360))
    ELSE IF lon < -Deg(180) THEN NormalizeLon(lon + Deg(360))
    ELSE lon

ClampLat(lat) == IF lat > Deg(90) THEN Deg(90) ELSE IF lat < -Deg(90) THEN -Deg(90) ELSE lat

RangeParams(slat, slon, elat, elon, step) ==
    [SLat |-> slat, SLon |-> slon, ELat |-> elat, ELon |-> elon, Step |-> step]

\* The rectangles the range queries are asked for.
Ranges ==
    { RangeParams(Deg(90), Deg(180), Deg(90), Deg(180) + 2, 2) }

NoRange == RangeParams(0, 0, 0, 0, 0)

\* readAndParseRangeFile (cache.go lines 243-330): the samples are visited
\* latitude-major; n counts them from 0.
readAndParseRangeFile(file, params) ==
    LET rd == ReadFile(file)
        data == Unmarshal(rd.content)
        latSteps == (Abs(params.ELat - params.SLat) \div params.Step) + 1
        lonSteps == (Abs(params.ELon - params.SLon) \div params.Step) + 1
        latOf(n) == ClampLat(params.SLat
                       + (n \div lonSteps) * params.Step * getSign(params.ELat - params.SLat))
        lonOf(n) == NormalizeLon(params.SLon
                       + (n % lonSteps) * params.Step * getSign(params.ELon - params.SLon))
        idxOf(n) == GetIndexForCoord(latOf(n), lonOf(n))
        valid(n) == /\ ~idxOf(n).err
                    /\ ~(\/ idxOf(n).index < 0
                         \/ idxOf(n).index >= data.U.len
                         \/ idxOf(n).index >= data.V.len)
        all == [k \in 1..(latSteps * lonSteps) |-> k - 1]
        kept == SelectSeq(all, valid)
        bad == [err |-> TRUE, U |-> << >>, V |-> << >>, Lats |-> << >>, Lons |-> << >>]
    IN  IF rd.err # "" THEN bad
        ELSE IF ~data.ok THEN bad
        ELSE IF data.U.len = 0 THEN bad
        ELSE IF data.V.len = 0 THEN bad
        ELSE IF Len(kept) = 0 THEN bad
        ELSE [err |-> FALSE,
              U |-> [k \in 1..Len(kept) |-> At(data.U, idxOf(kept[k]).index)],
              V |-> [k \in 1..Len(kept) |-> At(data.V, idxOf(kept[k]).index)],
              Lats |-> [k \in 1..Len(kept) |-> latOf(kept[k])],
              Lons |-> [k \in 1..Len(kept) |-> lonOf(kept[k])]]

\* loadFileToCache lines 266-285: parse the content read into a FileCache.
ParseToCache(content) ==
    LET data == Unmarshal(content)
    IN  IF ~data.ok THEN [err |-> TRUE, U |-> NilArr, V |-> NilArr]
        ELSE IF data.U.len = 0 \/ data.V.len = 0 THEN [err |-> TRUE, U |-> NilArr, V |-> NilArr]
        ELSE [err |-> FALSE, U |-> data.U, V |-> data.V]

(* ------------------------------------------------------------------ *)
(* State                                                               *)
(* ------------------------------------------------------------------ *)

VARIABLES
    disk,       \* the files under tmp/: path -> file
    fileCache,  \* the map fileCache: a function from the cached paths
    readers,    \* the requests holding cacheMutex in shared mode
    writer,     \* the request holding cacheMutex in exclusive mode, or 0
    req,        \* each request: its handler, its position, its locals
    response,   \* the call that ended in the last step, with what it returned
    dlReturn,   \* how the run of downloadAndSave that ended in the last step ended
    last,       \* history: the last point or range query that returned,
                \* while the file it read stays as it was
    served,     \* history: the number of requests received
    faults,     \* history: how often the system refused a call on a file
    wgroup,     \* history: for each path, what the runs of writeFile in
                \* progress, and those that overlapped them, write
    probe       \* a function of the program applied on its own: its name,
                \* its argument and, once it has returned, its result

vars == <<disk, fileCache, readers, writer, req, response, dlReturn, last,
          served, faults, wgroup, probe>>

\* The goroutines that serve requests at the same time.
Requests == {1, 2}

NoCache == [U |-> NilArr, V |-> NilArr]

\* A request not yet received.  u, v, wpos are downloadAndSave's and
\* writeFile's locals; cache is the *FileCache getOrLoadFileCache holds;
\* err and U, V, Lats, Lons, ODates are the handler's return values.
\* The rest is history.  reads: the outcome of each read of the artifact
\* made by the current read-through; ndl: the number of its calls of
\* downloadAndSave; dl: what downloadAndSave returned ("nil", "err");
\* fail: how the pipeline step that failed, if any, failed; wrote: whether
\* this run of downloadAndSave changed the file; after: what was known of
\* the artifact when the call began; loaded: what getOrLoadFileCache
\* returned for each date of the series so far.
Fresh ==
    [op |-> "", pc |-> "idle", date |-> 0, batch |-> "", lat |-> 0, lon |-> 0,
     range |-> NoRange, startDate |-> 0, endDate |-> 0, index |-> 0,
     u |-> NilArr, v |-> NilArr, wpos |-> 0, cache |-> NoCache,
     err |-> "", U |-> << >>, V |-> << >>, Lats |-> << >>, Lons |-> << >>, ODates |-> << >>,
     reads |-> << >>, ndl |-> 0, dl |-> "", after |-> "", fail |-> "", wrote |-> FALSE,
     loaded |-> << >>]

NoResponse == Fresh

NoReturn ==
    [r |-> 0, path |-> "", ret |-> "", fail |-> "", wrote |-> FALSE,
     group |-> << >>, lastWriter |-> FALSE]

PathOf(rq) == ReadPath(rq.date, rq.batch)

\* fileName in the request's call of downloadAndSave.
SavePathOf(rq) == FilePath(rq.date, rq.batch)

\* The query a request makes, as far as a read of its artifact can tell.
QueryOf(rq) == [op |-> rq.op, lat |-> rq.lat, lon |-> rq.lon, range |-> rq.range]

NoQuery == [path |-> "", query |-> QueryOf(Fresh), ok |-> FALSE]

\* The artifact an earlier run of the service left at path p.
Artifact(p) ==
    FileOf(Marshal(FullArr(KeyOf(p), "10u"), FullArr(KeyOf(p), "10v")))

\* No function is applied on its own while the service runs.
NoProbe == [fn |-> "", arg |-> << >>, done |-> FALSE, out |-> << >>]

\* tmp/ holds the artifacts of earlier runs of the service; the artifact
\* of the first or of the second day may not be there (day 0 is no day),
\* or cannot be opened.
Init ==
    /\ disk \in { [p \in Paths |-> IF KeyOf(p)[1] = d THEN bad ELSE Artifact(p)] :
                    d \in {0, SeriesDates[1], SeriesDates[2]}, bad \in {Missing, Unreadable} }
    /\ fileCache = << >>
    /\ readers = {}
    /\ writer = 0
    /\ req = [r \in Requests |-> Fresh]
    /\ response = NoResponse
    /\ dlReturn = NoReturn
    /\ last = NoQuery
    /\ served = 0
    /\ faults = 0
    /\ wgroup = [p \in Paths |-> << >>]
    /\ probe = NoProbe

\* The positions of a request inside writeFile.
InWriteFile == {"os.Create", "file.Write"}

\* Another request than r is inside writeFile for the path p.
OtherWriter(r, p) ==
    \E q \in Requests \ {r} : req[q].pc \in InWriteFile /\ SavePathOf(req[q]) = p

\* The history of the overlapping writers after a step of r to rq: a run
\* that enters writeFile joins the runs in progress on its path, or is
\* the first of a new group; the group ends with its last run.
WritersAfter(r, rq) ==
    IF req[r].pc \notin InWriteFile /\ rq.pc \in InWriteFile
    THEN [wgroup EXCEPT ![SavePathOf(rq)] =
            IF OtherWriter(r, SavePathOf(rq)) THEN Append(@, <<rq.u, rq.v>>)
            ELSE << <<rq.u, rq.v>> >>]
    ELSE IF /\ req[r].pc \in InWriteFile
            /\ rq.pc \notin InWriteFile
            /\ ~OtherWriter(r, SavePathOf(req[r]))
    THEN [wgroup EXCEPT ![SavePathOf(req[r])] = << >>]
    ELSE wgroup

\* Goroutine r receives a request (the idle goroutines are
\* interchangeable: the first of them takes it).
CanStart(r) ==
    /\ req[r].pc = "idle"
    /\ \A q \in Requests : q < r => req[q].pc # "idle"
    /\ served < MaxRequests

\* Request r steps to rq: a handler that returns (pc "done") hands its
\* response over, its locals are gone and its goroutine is free again; a
\* panic (pc "panicked") unwinds the handler, which returns nothing, and
\* the HTTP server drops the connection.
Step(r, rq) ==
    /\ req' = [req EXCEPT ![r] = IF rq.pc \in {"done", "panicked"} THEN Fresh ELSE rq]
    /\ response' = IF rq.pc \in {"done", "panicked"} THEN rq ELSE NoResponse
    /\ served' = IF req[r].pc = "idle" THEN served + 1 ELSE served
    /\ wgroup' = WritersAfter(r, rq)
    /\ probe' = probe

\* The history of the last query after a step to rq that changed the files
\* at the paths in changed.
LastAfter(rq, changed) ==
    IF rq.pc = "done" /\ rq.op \in {"SingleQuery", "RangeQuery"}
    THEN [path |-> PathOf(rq), query |-> QueryOf(rq), ok |-> rq.err = ""]
    ELSE IF last.path \in changed THEN NoQuery
    ELSE last

\* What is known of the artifact when query q for path p begins.
AfterOf(p, q) ==
    IF last.path # p THEN ""
    ELSE IF last.query = q /\ last.ok THEN "answered"
    ELSE "returned"

\* downloadAndSave ends for the request in state rq.
ReturnOf(r, rq, ret) ==
    [r |-> r, path |-> SavePathOf(rq), ret |-> ret, fail |-> rq.fail, wrote |-> rq.wrote,
     group |-> wgroup[SavePathOf(rq)], lastWriter |-> ~OtherWriter(r, SavePathOf(rq))]

(* ------------------------------------------------------------------ *)
(* The read-through of SingleQuery and RangeQuery                      *)
(* ------------------------------------------------------------------ *)

\* return: the handler's locals go out of scope.
Return(rq, err) ==
    [rq EXCEPT !.pc = "done", !.err = err,
               !.u = NilArr, !.v = NilArr, !.wpos = 0, !.cache = NoCache]

\* A first try that acquires whatever the read returns.
AfterFirstTry_AlwaysAcquire(rq, resp) ==
    [rq EXCEPT !.reads = Append(@, IF resp.err THEN "fail" ELSE "ok"),
               !.pc = "downloadAndSave", !.ndl = @ + 1]

\* "First try" (singleCoordAPI.go 105-112, cache.go 222-229): return the
\* response of a successful read, else call downloadAndSave.
AfterFirstTry(rq, resp) ==
    IF ~resp.err
    THEN Return([rq EXCEPT !.reads = Append(@, "ok"),
                           !.U = resp.U, !.V = resp.V,
                           !.Lats = resp.Lats, !.Lons = resp.Lons], "")
    ELSE [rq EXCEPT !.reads = Append(@, "fail"), !.pc = "downloadAndSave",
                    !.ndl = @ + 1]

\* A second try that acquires again when its read fails.
AfterSecondTry_Retry(rq, resp) ==
    IF resp.err
    THEN [rq EXCEPT !.reads = Append(@, "fail"), !.pc = "downloadAndSave", !.ndl = @ + 1]
    ELSE Return([rq EXCEPT !.reads = Append(@, "ok"),
                           !.U = resp.U, !.V = resp.V,
                           !.Lats = resp.Lats, !.Lons = resp.Lons], "")

\* "Second try" (singleCoordAPI.go 116-124, cache.go 233-240).
AfterSecondTry(rq, resp) ==
    IF resp.err
    THEN Return([rq EXCEPT !.reads = Append(@, "fail")], "read/parse failed after download")
    ELSE Return([rq EXCEPT !.reads = Append(@, "ok"),
                           !.U = resp.U, !.V = resp.V,
                           !.Lats = resp.Lats, !.Lons = resp.Lons], "")

\* The response of readAndParseFile in the shape of a RangeResponse.
SingleResponse(file, lat, lon) ==
    LET resp == readAndParseFile(file, lat, lon)
    IN  [err |-> resp.err,
         U |-> IF resp.err THEN << >> ELSE <<resp.U>>,
         V |-> IF resp.err THEN << >> ELSE <<resp.V>>,
         Lats |-> << >>, Lons |-> << >>]

\* The read a request's handler makes of its artifact.
ReadFor(rq) ==
    IF rq.op = "SingleQuery"
    THEN SingleResponse(disk[PathOf(rq)], rq.lat, rq.lon)
    ELSE readAndParseRangeFile(disk[PathOf(rq)], rq.range)

\* The dates the point and range queries ask for.
QueryDates == {FirstDate}

SingleQuery_FirstTry(r) ==
    /\ CanStart(r)
    /\ \E date \in QueryDates, batch \in Batches, c \in Coords :
         LET q == [Fresh EXCEPT !.op = "SingleQuery", !.date = date, !.batch = batch,
                                !.lat = c[1], !.lon = c[2]]
             rq == AfterFirstTry(
                     [q EXCEPT !.after = AfterOf(PathOf(q), QueryOf(q))], ReadFor(q))
         IN  Step(r, rq) /\ last' = LastAfter(rq, {})
    /\ dlReturn' = NoReturn
    /\ UNCHANGED <<disk, fileCache, readers, writer, faults>>

RangeQuery_FirstTry(r) ==
    /\ CanStart(r)
    /\ \E date \in QueryDates, batch \in Batches, params \in Ranges :
         LET q == [Fresh EXCEPT !.op = "RangeQuery", !.date = date, !.batch = batch,
                                !.range = params]
             rq == AfterFirstTry(
                     [q EXCEPT !.after = AfterOf(PathOf(q), QueryOf(q))], ReadFor(q))
         IN  Step(r, rq) /\ last' = LastAfter(rq, {})
    /\ dlReturn' = NoReturn
    /\ UNCHANGED <<disk, fileCache, readers, writer, faults>>

SingleQuery_SecondTry(r) ==
    /\ req[r].pc = "second_try"
    /\ req[r].op = "SingleQuery"
    /\ LET rq == AfterSecondTry(req[r], ReadFor(req[r]))
       IN  Step(r, rq) /\ last' = LastAfter(rq, {})
    /\ dlReturn' = NoReturn
    /\ UNCHANGED <<disk, fileCache, readers, writer, faults>>

RangeQuery_SecondTry(r) ==
    /\ req[r].pc = "second_try"
    /\ req[r].op = "RangeQuery"
    /\ LET rq == AfterSecondTry(req[r], ReadFor(req[r]))
       IN  Step(r, rq) /\ last' = LastAfter(rq, {})
    /\ dlReturn' = NoReturn
    /\ UNCHANGED <<disk, fileCache, readers, writer, faults>>

(* ------------------------------------------------------------------ *)
(* DateRangeQuery's loop                                               *)
(* ------------------------------------------------------------------ *)

\* The body of the loop once getOrLoadFileCache has returned (lines
\* 173-197), and the loop's end (lines 199-211): a load error or an index
\* outside the arrays appends zeros.
DateStep(rq, loadErr, cache) ==
    LET oob == rq.index < 0 \/ rq.index >= cache.U.len \/ rq.index >= cache.V.len
        zero == loadErr \/ oob
        out == [rq EXCEPT !.ODates = Append(@, rq.date),
                          !.U = Append(@, IF zero THEN 0 ELSE At(cache.U, rq.index)),
                          !.V = Append(@, IF zero THEN 0 ELSE At(cache.V, rq.index)),
                          !.loaded = Append(@, IF loadErr THEN NoCache ELSE cache)]
    IN  IF rq.date = rq.endDate
        THEN Return(out, IF Len(out.ODates) = 0 THEN "no data found" ELSE "")
        ELSE [out EXCEPT !.date = Format(AddDay(Parse(@))), !.pc = "RLock",
                         !.u = NilArr, !.v = NilArr, !.wpos = 0, !.cache = NoCache,
                         !.reads = << >>, !.ndl = 0, !.dl = "", !.fail = "", !.wrote = FALSE]

\* The coordinates the date series are asked for: they map to index 1.
SeriesCoords == { <<Deg(90), Deg(180) + 2>> }

\* DateRangeQuery lines 145-167.  The series asked for begin on the first
\* day and end on the last day, or on the day before they begin.
DateRangeQuery_Start(r) ==
    /\ CanStart(r)
    /\ \E startDate \in {FirstDate}, endDate \in {FirstDate - 1, SeriesDates[NumDates]}, batch \in Batches, c \in SeriesCoords :
         LET valueIndex == GetIndexForCoord(c[1], c[2])
             dates == generateDateRange(startDate, endDate)
             q == [Fresh EXCEPT !.op = "DateRangeQuery", !.batch = batch,
                                !.lat = c[1], !.lon = c[2], !.date = startDate,
                                !.startDate = startDate, !.endDate = endDate]
         IN  Step(r, IF valueIndex.err THEN Return(q, "failed to get index for coord")
                     ELSE IF dates.err THEN Return(q, "failed to generate date range")
                     ELSE [q EXCEPT !.index = valueIndex.index, !.pc = "RLock"])
    /\ dlReturn' = NoReturn
    /\ UNCHANGED <<disk, fileCache, readers, writer, last, faults>>

(* ------------------------------------------------------------------ *)
(* getOrLoadFileCache, loadFileToCache, ClearDateRangeCache            *)
(* ------------------------------------------------------------------ *)

\* cacheMutex.RLock()
GetOrLoad_RLock(r) ==
    /\ req[r].pc = "RLock"
    /\ writer = 0
    /\ readers' = readers \cup {r}
    /\ Step(r, [req[r] EXCEPT !.pc = "lookup"])
    /\ dlReturn' = NoReturn
    /\ UNCHANGED <<disk, fileCache, writer, last, faults>>

\* A lookup that gives the shared lock back on a hit only.
GetOrLoad_Lookup_HoldOnMiss(r) ==
    /\ req[r].pc = "lookup"
    /\ readers' = IF PathOf(req[r]) \in DOMAIN fileCache THEN readers \ {r} ELSE readers
    /\ Step(r, IF PathOf(req[r]) \in DOMAIN fileCache
                THEN DateStep(req[r], FALSE, fileCache[PathOf(req[r])])
                ELSE [req[r] EXCEPT !.pc = "loadFileToCache"])
    /\ dlReturn' = NoReturn
    /\ UNCHANGED <<disk, fileCache, writer, last, faults>>

\* A lookup that trusts an entry only while its file can be read.
GetOrLoad_Lookup_Revalidate(r) ==
    /\ req[r].pc = "lookup"
    /\ readers' = readers \ {r}
    /\ Step(r, IF /\ PathOf(req[r]) \in DOMAIN fileCache
                   /\ ReadFile(disk[PathOf(req[r])]).err = ""
                THEN DateStep(req[r], FALSE, fileCache[PathOf(req[r])])
                ELSE [req[r] EXCEPT !.pc = "loadFileToCache"])
    /\ dlReturn' = NoReturn
    /\ UNCHANGED <<disk, fileCache, writer, last, faults>>

\* cache, exists := fileCache[filePath]; cacheMutex.RUnlock(); a hit
\* returns the entry.
GetOrLoad_Lookup(r) ==
    /\ req[r].pc = "lookup"
    /\ readers' = readers \ {r}
    /\ Step(r, IF PathOf(req[r]) \in DOMAIN fileCache
                THEN DateStep(req[r], FALSE, fileCache[PathOf(req[r])])
                ELSE [req[r] EXCEPT !.pc = "loadFileToCache"])
    /\ dlReturn' = NoReturn
    /\ UNCHANGED <<disk, fileCache, writer, last, faults>>

\* A load that hands a record that does not parse on to the insertion, as
\* an empty entry.
Loaded_InsertOnError(rq, content) ==
    LET parsed == ParseToCache(content)
    IN  [rq EXCEPT !.reads = Append(@, IF parsed.err THEN "fail" ELSE "ok"), !.pc = "Lock",
                   !.cache = [U |-> parsed.U, V |-> parsed.V]]

\* loadFileToCache lines 266-285 and the return into getOrLoadFileCache
\* (lines 226-229): a parse error is the load's error.
Loaded(rq, content) ==
    LET parsed == ParseToCache(content)
    IN  IF parsed.err
        THEN DateStep([rq EXCEPT !.reads = Append(@, "fail")], TRUE, NoCache)
        ELSE [rq EXCEPT !.reads = Append(@, "ok"), !.pc = "Lock",
                        !.cache = [U |-> parsed.U, V |-> parsed.V]]

\* loadFileToCache lines 249-264, the first os.ReadFile: only a file that
\* does not exist is downloaded.
AfterLoadRead(rq, rd) ==
    IF rd.err = "notexist"
    THEN [rq EXCEPT !.reads = Append(@, "fail"), !.pc = "downloadAndSave", !.ndl = @ + 1]
    ELSE IF rd.err # ""
    THEN DateStep([rq EXCEPT !.reads = Append(@, "fail")], TRUE, NoCache)
    ELSE Loaded(rq, rd.content)

LoadFile_Read(r) ==
    /\ req[r].pc = "loadFileToCache"
    /\ Step(r, AfterLoadRead(req[r], ReadFile(disk[PathOf(req[r])])))
    /\ dlReturn' = NoReturn
    /\ UNCHANGED <<disk, fileCache, readers, writer, last, faults>>

\* loadFileToCache lines 256-260: "read again".
AfterLoadReread(rq, rd) ==
    IF rd.err # ""
    THEN DateStep([rq EXCEPT !.reads = Append(@, "fail")], TRUE, NoCache)
    ELSE Loaded(rq, rd.content)

LoadFile_Reread(r) ==
    /\ req[r].pc = "reread"
    /\ Step(r, AfterLoadReread(req[r], ReadFile(disk[PathOf(req[r])])))
    /\ dlReturn' = NoReturn
    /\ UNCHANGED <<disk, fileCache, readers, writer, last, faults>>

\* cacheMutex.Lock()
GetOrLoad_Lock(r) ==
    /\ req[r].pc = "Lock"
    /\ writer = 0
    /\ readers = {}
    /\ writer' = r
    /\ Step(r, [req[r] EXCEPT !.pc = "insert"])
    /\ dlReturn' = NoReturn
    /\ UNCHANGED <<disk, fileCache, readers, last, faults>>

\* An insertion that never clears the map.
InsertInto_KeepAll(map, path, entry) ==
    [p \in (DOMAIN map) \cup {path} |-> IF p = path THEN entry ELSE map[p]]

\* An insertion that clears the map only once it holds more than the bound.
InsertInto_Late(map, path, entry) ==
    LET base == IF Cardinality(DOMAIN map) > maxCacheSize THEN << >> ELSE map
    IN  [p \in (DOMAIN base) \cup {path} |-> IF p = path THEN entry ELSE base[p]]

\* Lines 236-242: clear the whole map when it is full, then insert.
InsertInto(map, path, entry) ==
    LET base == IF Cardinality(DOMAIN map) >= maxCacheSize THEN << >> ELSE map
    IN  [p \in (DOMAIN base) \cup {path} |-> IF p = path THEN entry ELSE base[p]]

\* The insertion, and the deferred cacheMutex.Unlock() at the return.
GetOrLoad_Insert(r) ==
    /\ req[r].pc = "insert"
    /\ fileCache' = InsertInto(fileCache, PathOf(req[r]), req[r].cache)
    /\ writer' = 0
    /\ Step(r, DateStep(req[r], FALSE, req[r].cache))
    /\ dlReturn' = NoReturn
    /\ UNCHANGED <<disk, readers, last, faults>>

\* ClearDateRangeCache: cacheMutex.Lock()
ClearDateRangeCache_Lock(r) ==
    /\ CanStart(r)
    /\ writer = 0
    /\ readers = {}
    /\ writer' = r
    /\ Step(r, [Fresh EXCEPT !.op = "ClearDateRangeCache", !.pc = "clear"])
    /\ dlReturn' = NoReturn
    /\ UNCHANGED <<disk, fileCache, readers, last, faults>>

\* A reset that drops one entry and keeps the others.
ClearDateRangeCache_Reset_OneEntry(r) ==
    /\ req[r].pc = "clear"
    /\ fileCache' =
         IF fileCache = << >> THEN << >>
         ELSE LET gone == CHOOSE p \in DOMAIN fileCache : TRUE
              IN  [p \in (DOMAIN fileCache) \ {gone} |-> fileCache[p]]
    /\ writer' = 0
    /\ Step(r, Return(req[r], ""))
    /\ dlReturn' = NoReturn
    /\ UNCHANGED <<disk, readers, last, faults>>

\* fileCache = make(map[string]*FileCache), and the deferred Unlock.
ClearDateRangeCache_Reset(r) ==
    /\ req[r].pc = "clear"
    /\ fileCache' = << >>
    /\ writer' = 0
    /\ Step(r, Return(req[r], ""))
    /\ dlReturn' = NoReturn
    /\ UNCHANGED <<disk, readers, last, faults>>

(* ------------------------------------------------------------------ *)
(* downloadAndSave and writeFile                                       *)
(* ------------------------------------------------------------------ *)

\* How the first step of the pipeline that fails under w fails: "" when
\* every step succeeds, "err" for an error return, "panic" for a panic.
FirstFailure(w) ==
    LET parsed == parseIndexResponse(w.doc)
        got == getGribData(parsed.chunks, w.clientOk, w.chunk)
        results == << IF w.indexOk THEN "ok" ELSE "err",
                      parsed.st,
                      got.st,
                      unwarpGribRawJsonValue(got.map["10u"]).st,
                      unwarpGribRawJsonValue(got.map["10v"]).st,
                      IF w.marshalOk THEN "ok" ELSE "err" >>
        failing == {i \in 1..6 : results[i] # "ok"}
    IN  IF failing = {} THEN ""
        ELSE results[CHOOSE i \in failing : \A j \in failing : i <= j]

\* A caller that reports a download error as a failed second read.
AfterDownloadQuery_OneMessage(rq, ok) ==
    IF ok
    THEN [rq EXCEPT !.pc = "second_try", !.dl = "nil",
                    !.u = NilArr, !.v = NilArr, !.wpos = 0]
    ELSE Return([rq EXCEPT !.dl = "err"], "read/parse failed after download")

\* SingleQuery lines 111-114, RangeQuery lines 228-231: a download error
\* is returned as "download failed", else the second try follows.
AfterDownloadQuery(rq, ok) ==
    IF ok
    THEN [rq EXCEPT !.pc = "second_try", !.dl = "nil",
                    !.u = NilArr, !.v = NilArr, !.wpos = 0]
    ELSE Return([rq EXCEPT !.dl = "err"], "download failed")

\* loadFileToCache lines 253-256.
AfterDownloadLoad(rq, ok) ==
    IF ok
    THEN [rq EXCEPT !.pc = "reread", !.dl = "nil",
                    !.u = NilArr, !.v = NilArr, !.wpos = 0]
    ELSE DateStep([rq EXCEPT !.dl = "err"], TRUE, NoCache)

\* downloadAndSave returns to its caller.
AfterDownload(rq, ok) ==
    IF rq.op = "DateRangeQuery" THEN AfterDownloadLoad(rq, ok)
    ELSE AfterDownloadQuery(rq, ok)

\* What a run of the pipeline for key can come to: the result of lines
\* 10-55 under each answer of the outside world, with how its first
\* failing step failed.
PipelineOutcomes ==
    [key \in Keys |-> {[res |-> Pipeline(w), fail |-> FirstFailure(w)] : w \in Worlds(key)}]

\* downloadAndSave lines 10-55: the whole pipeline touches no shared
\* state, so it is one step.  A panic ends the request's goroutine (the
\* HTTP server recovers it); the handler never returns.
DownloadAndSave_Pipeline(r) ==
    /\ req[r].pc = "downloadAndSave"
    /\ \E o \in PipelineOutcomes[<<req[r].date, req[r].batch>>] :
         LET res == o.res
             rq0 == [req[r] EXCEPT !.fail = o.fail]
             rq == CASE res.st = "ok" ->
                          [rq0 EXCEPT !.pc = "os.Create", !.u = res.u, !.v = res.v]
                      [] res.st = "err" -> AfterDownload(rq0, FALSE)
                      [] OTHER -> [rq0 EXCEPT !.pc = "panicked"]
         IN  /\ Step(r, rq)
             /\ last' = LastAfter(rq, {})
             /\ dlReturn' = CASE res.st = "ok" -> NoReturn
                              [] res.st = "err" -> ReturnOf(r, rq0, "err")
                              [] OTHER -> ReturnOf(r, rq0, "panic")
    /\ UNCHANGED <<disk, fileCache, readers, writer, faults>>

\* Whether the system carries out a call on a file (TRUE) or refuses it.
SystemAnswers == IF faults < MaxFaults THEN {TRUE, FALSE} ELSE {TRUE}

\* os.Create(path): truncates the file or creates it empty; it fails on a
\* path that cannot be opened and whenever the system refuses (ok FALSE).
osCreate(file, ok) ==
    IF ok /\ file.st # "unreadable"
    THEN [err |-> FALSE, file |-> FileOf(<< >>)]
    ELSE [err |-> TRUE, file |-> file]

\* writeFile lines 36-39, and downloadAndSave lines 59-62 on its error.
WriteFile_Create(r) ==
    /\ req[r].pc = "os.Create"
    /\ \E ok \in SystemAnswers :
         LET path == SavePathOf(req[r])
             made == osCreate(disk[path], ok)
             rq == IF made.err THEN AfterDownload(req[r], FALSE)
                   ELSE [req[r] EXCEPT !.pc = "file.Write", !.wpos = 0,
                                       !.wrote = made.file # disk[path]]
         IN  /\ disk' = [disk EXCEPT ![path] = made.file]
             /\ Step(r, rq)
             /\ last' = LastAfter(rq, IF made.err THEN {} ELSE {path})
             /\ dlReturn' = IF made.err THEN ReturnOf(r, req[r], "err") ELSE NoReturn
             /\ faults' = IF ok THEN faults ELSE faults + 1
    /\ UNCHANGED <<fileCache, readers, writer>>

\* file.Write(data), writeFile line 41, writes the serialized record
\* chunk by chunk at the file's own offset; chunk is the next one.
fileWrite(file, wpos, chunk) == FileOf(WriteAt(file.data, wpos, chunk))

\* writeFile lines 40-42: the error of file.Write is dropped, so a write
\* that fails (ok FALSE) ends writeFile with nil all the same.
WriteFile_Write(r) ==
    /\ req[r].pc = "file.Write"
    /\ \E ok \in SystemAnswers :
         LET path == SavePathOf(req[r])
             data == Marshal(req[r].u, req[r].v)
             file == IF ok THEN fileWrite(disk[path], req[r].wpos, data[req[r].wpos + 1])
                     ELSE disk[path]
             rq0 == [req[r] EXCEPT !.wrote = @ \/ file # disk[path]]
             more == ok /\ req[r].wpos + 1 < Len(data)
             rq == IF more THEN [rq0 EXCEPT !.wpos = @ + 1] ELSE AfterDownload(rq0, TRUE)
         IN  /\ disk' = [disk EXCEPT ![path] = file]
             /\ Step(r, rq)
             /\ last' = LastAfter(rq, IF file # disk[path] THEN {path} ELSE {})
             /\ dlReturn' = IF more THEN NoReturn ELSE ReturnOf(r, rq0, "nil")
             /\ faults' = IF ok THEN faults ELSE faults + 1
    /\ UNCHANGED <<fileCache, readers, writer>>

(* ------------------------------------------------------------------ *)
(* Specifications                                                      *)
(* ------------------------------------------------------------------ *)

Next ==
    \E r \in Requests :
        \/ SingleQuery_FirstTry(r)
        \/ SingleQuery_SecondTry(r)
        \/ RangeQuery_FirstTry(r)
        \/ RangeQuery_SecondTry(r)
        \/ DateRangeQuery_Start(r)
        \/ GetOrLoad_RLock(r)
        \/ GetOrLoad_Lookup(r)
        \/ LoadFile_Read(r)
        \/ LoadFile_Reread(r)
        \/ GetOrLoad_Lock(r)
        \/ GetOrLoad_Insert(r)
        \/ ClearDateRangeCache_Lock(r)
        \/ ClearDateRangeCache_Reset(r)
        \/ DownloadAndSave_Pipeline(r)
        \/ WriteFile_Create(r)
        \/ WriteFile_Write(r)

Spec == Init /\ [][Next]_vars

(* ------------------------------------------------------------------ *)
(* The service after it has run for a while                            *)
(* ------------------------------------------------------------------ *)

\* The entry getOrLoadFileCache holds for an artifact it loaded.
WarmEntry(p) ==
    [U |-> FullArr(KeyOf(p), "10u"), V |-> FullArr(KeyOf(p), "10v")]

\* fileCache after earlier series: entries for up to maxCacheSize days.
WarmCaches ==
    { [p \in S |-> WarmEntry(p)] :
        S \in { T \in SUBSET Paths : Cardinality(T) <= maxCacheSize } }

\* tmp/ after earlier series: since its load the first day's artifact may
\* have been removed, made unreadable, damaged, or replaced by another
\* record.
WarmDisks ==
    { [p \in Paths |-> IF KeyOf(p)[1] = FirstDate THEN f ELSE Artifact(p)] :
        f \in { Artifact(FilePath(FirstDate, "00z")), Missing, Unreadable,
                FileOf(<<Hole>>), FileOf(Marshal(ZeroArr, ZeroArr)) } }

\* All requests but the last have been served and have returned.
InitWarm ==
    /\ disk \in WarmDisks
    /\ fileCache \in WarmCaches
    /\ readers = {}
    /\ writer = 0
    /\ req = [r \in Requests |-> Fresh]
    /\ response = NoResponse
    /\ dlReturn = NoReturn
    /\ last = NoQuery
    /\ served = MaxRequests - 1
    /\ faults = 0
    /\ wgroup = [p \in Paths |-> << >>]
    /\ probe = NoProbe

SpecWarm == InitWarm /\ [][Next]_vars

(* ------------------------------------------------------------------ *)
(* The functions of the program, applied on their own                  *)
(* ------------------------------------------------------------------ *)

\* A call of fn with argument arg that has not returned yet.
Call(fn, arg) == [fn |-> fn, arg |-> arg, done |-> FALSE, out |-> << >>]

\* The call of fn returns out; the service is at rest.
Returns(fn, out) ==
    /\ probe.fn = fn
    /\ ~probe.done
    /\ probe' = [probe EXCEPT !.done = TRUE, !.out = out]
    /\ UNCHANGED <<disk, fileCache, readers, writer, req, response, dlReturn,
                   last, served, faults, wgroup>>

\* The date strings generateDateRange is called with: days around the end
\* of February in a leap year, in a common year, in 1900 and in 2000,
\* days around the end of a 30-day month and of a year, and strings that
\* name no day (a 29th of February, a 13th month, a day 0, a day 31 of
\* April, no digits).
DateStrings ==
    { 20240227, 20240228, 20240229, 20240301, 20230228, 20230229, 20230301,
      20231230, 20231231, 20240101, 20240102, 20240103, 20240430, 20240431,
      20240501, 20241301, 20240100, 19000228, 19000301, 20000228, 20000229,
      20000301, -1 }

\* The ranges asked for end before they start, or at most MaxMonths months
\* after, or in the January after a start in December.
MaxMonths == 2

DateRanges ==
    { a \in DateStrings \X DateStrings :
        \/ a[2] - a[1] <= MaxMonths * 100
        \/ /\ (a[2] \div 10000) - (a[1] \div 10000) = 1
           /\ (a[1] \div 100) % 100 = 12
           /\ (a[2] \div 100) % 100 = 1 }

\* The artifacts readAndParseRangeFile is called on: each array is all
\* zeros, or the run's values, or cut short after its first value; or the
\* "10u" array is empty.
RangeArrays(f) ==
    { ZeroArr, FullArr(<<FirstDate, "00z">>, f), ShortArr(<<FirstDate, "00z">>, f) }

RangeFiles ==
    { FileOf(Marshal(u, v)) : u \in RangeArrays("10u"), v \in RangeArrays("10v") }
      \cup { FileOf(Marshal(NilArr, ZeroArr)) }

\* The most samples a rectangle asked for has.
MaxSamples == 25

\* The rectangles asked for: corners at 10 degrees, and corners around the
\* first grid point (90, 180) on both sides of the pole and of the date
\* line, with steps of an eighth, a quarter and one degree, in both
\* directions.
RangeLats == { Deg(10), Deg(90) - 2, Deg(90), Deg(90) + 2 }

RangeLons == { Deg(10), Deg(180) - 2, Deg(180), Deg(180) + 2 }

RangeSteps == { 1, 2, Deg(1) }

RangeRects ==
    { p \in { RangeParams(slat, slon, elat, elon, step) :
                slat \in RangeLats, slon \in RangeLons, elat \in RangeLats,
                elon \in RangeLons, step \in RangeSteps } :
        ((Abs(p.ELat - p.SLat) \div p.Step) + 1)
          * ((Abs(p.ELon - p.SLon) \div p.Step) + 1) <= MaxSamples }

\* readAndParseRangeFile(filePath, params), on the file at filePath.
Apply_readAndParseRangeFile ==
    Returns("readAndParseRangeFile", readAndParseRangeFile(probe.arg[1], probe.arg[2]))

\* The coordinates GetIndexForCoord is called with: within a quarter of a
\* degree of the poles, of a degree beyond them, of the equator and of
\* 10 degrees; within a quarter of a degree of the date line, of the prime
\* meridian and of 10 degrees, and whole turns east and west of them.
Near(degrees) == { Deg(k) + e : k \in degrees, e \in -2..2 }

GridLats == Near({-91, -90, -89, 0, 10, 89, 90, 91})

GridLons == Near({-720, -540, -360, -180, 0, 10, 180, 360, 540})

\* GetIndexForCoord(targetLat, targetLon).
Apply_GetIndexForCoord ==
    Returns("GetIndexForCoord", GetIndexForCoord(probe.arg[1], probe.arg[2]))

\* The calls of fetchAndProcessGribChunk that can fail, in their order.
ChunkStages == <<"NewRangeReader", "CreateTemp", "io.Copy", "Close", "grib_dump">>

\* The stage fetchAndProcessGribChunk returns at when the system answers
\* sys (stage -> success): the first call that fails, or "done".
RECURSIVE ExitFrom(_, _)
ExitFrom(sys, n) ==
    IF n > Len(ChunkStages) THEN "done"
    ELSE IF ~sys[ChunkStages[n]] THEN ChunkStages[n]
    ELSE ExitFrom(sys, n + 1)

\* Deferred calls that remove the file on the way out of a success only.
Deferred_RemoveOnSuccess(stage) ==
    CASE stage = "NewRangeReader" -> << >>
      [] stage = "done" -> <<"reader.Close", "os.Remove">>
      [] OTHER -> <<"reader.Close">>

\* The calls deferred when the function returns at stage, in the order
\* of their registration (gcloud.go lines 25 and 32-37).
Deferred(stage) ==
    CASE stage = "NewRangeReader" -> << >>
      [] stage = "CreateTemp" -> <<"reader.Close">>
      [] OTHER -> <<"reader.Close", "os.Remove">>

\* fetchAndProcessGribChunk under the answers sys of the system, the last
\* of them os.Remove's: where it returned, whether it created its temporary
\* file, whether the file was still open when removal was asked for, and
\* whether the file is there after the return.
fetchAndProcessGribChunk(sys) ==
    LET stage == ExitFrom(sys, 1)
        created == stage \notin {"NewRangeReader", "CreateTemp"}
        deferred == Deferred(stage)
        attempted == \E k \in 1..Len(deferred) : deferred[k] = "os.Remove"
    IN  [stage |-> stage,
         err |-> stage # "done",
         created |-> created,
         open |-> created /\ stage \in {"io.Copy", "Close"},
         removeAttempted |-> attempted,
         readerClosed |-> \E k \in 1..Len(deferred) : deferred[k] = "reader.Close",
         remains |-> created /\ ~(attempted /\ sys["os.Remove"])]

\* The answers of the system to the calls of one fetchAndProcessGribChunk.
SystemCalls == {"NewRangeReader", "CreateTemp", "io.Copy", "Close", "grib_dump", "os.Remove"}

ChunkSystems == [SystemCalls -> BOOLEAN]

\* fetchAndProcessGribChunk(ctx, client, bucketName, objectName, chunk).
Apply_fetchAndProcessGribChunk ==
    Returns("fetchAndProcessGribChunk", fetchAndProcessGribChunk(probe.arg[2]))

\* parseIndexResponse(index).
Apply_parseIndexResponse ==
    Returns("parseIndexResponse", parseIndexResponse(probe.arg))

\* unwarpGribRawJsonValue(raw).
Apply_unwarpGribRawJsonValue ==
    Returns("unwarpGribRawJsonValue", unwarpGribRawJsonValue(probe.arg))

\* downloadAndSave up to json.Marshal, in the world probe.arg.
Apply_Pipeline ==
    Returns("downloadAndSave", Pipeline(probe.arg))

\* The batches a request can name: SingleQuery and RangeQuery refuse only
\* the empty batch.
ValidBatches == {"00z", "06z", "12z", "18z"}

RequestBatches == ValidBatches \cup {"03z", "0z"}

\* downloadAndSave(date, batch) up to the return of queryIndex.
Apply_QueryRun ==
    Returns("queryIndex", QueryRun(probe.arg[1], probe.arg[2], probe.arg[3]))

\* generateDateRange(startDate, endDate).
Apply_generateDateRange ==
    Returns("generateDateRange", generateDateRange(probe.arg[1], probe.arg[2]))

InitFunctions ==
    /\ disk = [p \in Paths |-> Artifact(p)]
    /\ fileCache = << >>
    /\ readers = {}
    /\ writer = 0
    /\ req = [r \in Requests |-> Fresh]
    /\ response = NoResponse
    /\ dlReturn = NoReturn
    /\ last = NoQuery
    /\ served = 0
    /\ faults = 0
    /\ wgroup = [p \in Paths |-> << >>]
    /\ \/ \E a \in DateRanges : probe = Call("generateDateRange", a)
       \/ \E lat \in GridLats, lon \in GridLons :
            probe = Call("GetIndexForCoord", <<lat, lon>>)
       \/ \E f \in Fields, sys \in ChunkSystems :
            probe = Call("fetchAndProcessGribChunk", <<f, sys>>)
       \/ \E doc \in IndexDocs : probe = Call("parseIndexResponse", doc)
       \/ \E f \in Fields :
            \E raw \in (ChunkOutcomes(<<FirstDate, "00z">>, f) \cup {AbsentRaw})
                          \ {Raw("fetcherr", NilArr)} :
                probe = Call("unwarpGribRawJsonValue", raw)
       \/ \E w \in Worlds(<<FirstDate, "00z">>) : probe = Call("downloadAndSave", w)
       \/ \E date \in Dates, batch \in RequestBatches, indexOk \in BOOLEAN :
            probe = Call("queryIndex", <<date, batch, indexOk>>)
       \/ \E file \in RangeFiles, params \in RangeRects :
            probe = Call("readAndParseRangeFile", <<file, params>>)

NextFunctions ==
    \/ Apply_generateDateRange
    \/ Apply_readAndParseRangeFile
    \/ Apply_GetIndexForCoord
    \/ Apply_fetchAndProcessGribChunk
    \/ Apply_parseIndexResponse
    \/ Apply_unwarpGribRawJsonValue
    \/ Apply_Pipeline
    \/ Apply_QueryRun

SpecFunctions == InitFunctions /\ [][NextFunctions]_vars

(* ------------------------------------------------------------------ *)
(* Properties                                                          *)
(* ------------------------------------------------------------------ *)

\* C1: for every run key, at any time at most one execution of
\* downloadAndSave for that key is in progress, whatever the interleaving
\* of the calls that found its artifact missing.
AtMostOneAcquisition ==
    \A p \in Paths :
        Cardinality({ r \in Requests :
                        /\ req[r].pc \in {"downloadAndSave", "os.Create", "file.Write"}
                        /\ PathOf(req[r]) = p }) <= 1

\* C2 as stated: a point or range query that follows a returned query for
\* the same key, the artifact untouched in between, never invokes
\* downloadAndSave.
NoSecondAcquisitionForKey ==
    /\ \A r \in Requests : req[r].after \in {"returned", "answered"} => req[r].ndl = 0
    /\ response.after \in {"returned", "answered"} => response.ndl = 0

\* C2, amended: a point or range query that follows the same query
\* (same key, same parameters) that returned success, the artifact
\* untouched in between, never invokes downloadAndSave: it is answered
\* from the first read.
NoSecondAcquisitionForQuery ==
    /\ \A r \in Requests : req[r].after = "answered" => req[r].ndl = 0
    /\ response.after = "answered" =>
          /\ response.pc = "done"
          /\ response.ndl = 0
          /\ response.reads = <<"ok">>
          /\ response.err = ""

\* A query is answered from its first read after the same query succeeded.
AnsweredAgain ==
    /\ response.pc = "done"
    /\ response.op \in {"SingleQuery", "RangeQuery"}
    /\ response.after = "answered"
    /\ response.reads = <<"ok">>

\* C3: in every reachable state the artifact of a run key either does
\* not exist (or cannot be opened at all) or holds a complete serialized
\* record that parses.
NeverPartiallyWritten ==
    \A p \in Paths :
        \/ disk[p].st \in {"missing", "unreadable"}
        \/ Unmarshal(disk[p].data).ok

\* C4: every record persisted at an artifact's path and every record held
\* in fileCache has a u-sequence and a v-sequence of TotalPoints values.
LengthInvariant ==
    /\ \A p \in Paths :
          (disk[p].st = "file" /\ Unmarshal(disk[p].data).ok) =>
              /\ Unmarshal(disk[p].data).U.len = TotalPoints
              /\ Unmarshal(disk[p].data).V.len = TotalPoints
    /\ \A p \in DOMAIN fileCache :
          /\ fileCache[p].U.len = TotalPoints
          /\ fileCache[p].V.len = TotalPoints

\* C5: when a step of the acquisition pipeline fails, downloadAndSave
\* returns an error and has left the artifact as it was; only a run in
\* which every step succeeded changes the artifact.
NoPartialRuns ==
    /\ dlReturn.fail # "" => (dlReturn.ret = "err" /\ ~dlReturn.wrote)
    /\ \A r \in Requests : req[r].fail # "" => ~req[r].wrote

\* C6: one call of SingleQuery, RangeQuery or loadFileToCache invokes
\* downloadAndSave at most once, only after a failed first read, and
\* reads the artifact at most twice.
TwoPhaseReadThrough ==
    \A rq \in {req[r] : r \in Requests} \cup {response} :
        /\ rq.ndl <= 1
        /\ Len(rq.reads) <= 2
        /\ rq.ndl = 1 => (Len(rq.reads) >= 1 /\ rq.reads[1] = "fail")
        /\ Len(rq.reads) = 2 => (rq.ndl = 1 /\ rq.dl = "nil")

\* A call returns after an acquisition and its second read.
ReadTwice ==
    /\ response.pc = "done"
    /\ response.ndl = 1
    /\ Len(response.reads) = 2

\* C7: when SingleQuery or RangeQuery returns an error, it is "download
\* failed" exactly when downloadAndSave returned an error and "read/parse
\* failed after download" exactly when downloadAndSave returned nil and
\* the second read failed; it is one of the two, never both.
TerminalErrorsDistinguished ==
    (/\ response.pc = "done"
     /\ response.op \in {"SingleQuery", "RangeQuery"}
     /\ response.err # "") =>
        /\ response.err \in {"download failed", "read/parse failed after download"}
        /\ response.err = "download failed" <=> response.dl = "err"
        /\ response.err = "read/parse failed after download" <=>
              (response.dl = "nil" /\ response.reads = <<"fail", "fail">>)

\* A query fails on its second read, after an acquisition that returned nil.
SecondReadFailed ==
    /\ response.pc = "done"
    /\ response.op \in {"SingleQuery", "RangeQuery"}
    /\ response.err = "read/parse failed after download"

\* C8: an insertion into a fileCache that holds maxCacheSize entries
\* leaves the inserted key as the only entry; so a series that is alone
\* and loads maxCacheSize + 1 days into the empty cache leaves only the
\* last day's entry.
WholeCacheClear ==
    /\ [](( /\ served = 1
            /\ response.pc = "done"
            /\ response.op = "DateRangeQuery"
            /\ Len(response.loaded) = maxCacheSize + 1
            /\ \A i \in 1..Len(response.loaded) : response.loaded[i] # NoCache )
          => DOMAIN fileCache = {FilePath(response.endDate, response.batch)})
    /\ [][ \A r \in Requests :
             ( /\ req[r].pc = "insert"
               /\ req'[r].pc # "insert"
               /\ Cardinality(DOMAIN fileCache) >= maxCacheSize )
             => /\ DOMAIN fileCache' = {PathOf(req[r])}
                /\ fileCache'[PathOf(req[r])] = req[r].cache ]_vars

\* A series alone has loaded maxCacheSize + 1 days and the cache holds the
\* last day only.
OnlyTheLastKey ==
    /\ served = 1
    /\ response.pc = "done"
    /\ response.op = "DateRangeQuery"
    /\ Len(response.loaded) = maxCacheSize + 1
    /\ \A i \in 1..Len(response.loaded) : response.loaded[i] # NoCache
    /\ DOMAIN fileCache = {FilePath(SeriesDates[maxCacheSize + 1], response.batch)}

\* C9: in every reachable state fileCache holds at most maxCacheSize
\* entries.
BoundedCache == Cardinality(DOMAIN fileCache) <= maxCacheSize

\* Two series are under way while the cache is full.
FullCacheUnderRace ==
    /\ Cardinality(DOMAIN fileCache) = maxCacheSize
    /\ \A r \in Requests : req[r].op = "DateRangeQuery" /\ req[r].pc = "Lock"

\* C10: a date series with a valid range returns success; each date whose
\* record could not be loaded, or whose arrays end before the mapped
\* index, contributes u = 0 and v = 0, every other date the pair stored at
\* the index.
SeriesToleratesFailure ==
    (response.op = "DateRangeQuery" /\ response.startDate <= response.endDate) =>
        /\ response.pc = "done"
        /\ response.err = ""
        /\ Len(response.loaded) = Len(generateDateRange(response.startDate, response.endDate).dates)
        /\ Len(response.U) = Len(response.loaded)
        /\ Len(response.V) = Len(response.loaded)
        /\ \A i \in 1..Len(response.loaded) :
              LET c == response.loaded[i]
                  k == response.index
                  zero == c = NoCache \/ k >= c.U.len \/ k >= c.V.len
              IN  /\ response.U[i] = IF zero THEN 0 ELSE At(c.U, k)
                  /\ response.V[i] = IF zero THEN 0 ELSE At(c.V, k)

\* The number of the day a valid date string names, counted from a fixed
\* day, by the civil-calendar formula (years begin in March).
DayNumber(s) ==
    LET m == (s \div 100) % 100
        y == (s \div 10000) - (IF m <= 2 THEN 1 ELSE 0)
        mp == (m + 9) % 12
    IN  365 * y + (y \div 4) - (y \div 100) + (y \div 400)
          + ((153 * mp + 2) \div 5) + (s % 100)

\* The shape C11 asks of a series dates from startDate to endDate.
IsDaySeries(dates, startDate, endDate) ==
    /\ Len(dates) = DayNumber(endDate) - DayNumber(startDate) + 1
    /\ dates[1] = startDate
    /\ dates[Len(dates)] = endDate
    /\ \A i \in 1..(Len(dates) - 1) :
         /\ dates[i] < dates[i + 1]
         /\ DayNumber(dates[i + 1]) = DayNumber(dates[i]) + 1

\* C11: a DateRangeQuery that returns for a start date not after the end
\* date returns Dates, U and V of one length, the number of calendar days
\* from start to end inclusive; Dates begins at the start date, ends at the
\* end date and ascends by exactly one calendar day per entry; a start date
\* after the end date returns an error and no entries.
DateSeriesShape ==
    (response.op = "DateRangeQuery" /\ response.pc = "done") =>
        IF response.startDate <= response.endDate
        THEN /\ response.err = ""
             /\ Len(response.U) = Len(response.ODates)
             /\ Len(response.V) = Len(response.ODates)
             /\ IsDaySeries(response.ODates, response.startDate, response.endDate)
        ELSE /\ response.err # ""
             /\ response.ODates = << >>
             /\ response.U = << >>
             /\ response.V = << >>

\* A series of three days across the 29th of February has returned.
ThreeDaySeries ==
    /\ response.op = "DateRangeQuery"
    /\ response.pc = "done"
    /\ response.startDate = FirstDate
    /\ Len(response.ODates) = NumDates
    /\ \E i \in 1..Len(response.ODates) : response.ODates[i] % 10000 = 229

\* generateDateRange alone, over the calendar: two valid date strings with
\* the start not after the end give the days from start to end, and every
\* other pair gives an error and no dates.
GenerateDateRangeShape ==
    (probe.fn = "generateDateRange" /\ probe.done) =>
        LET startDate == probe.arg[1]
            endDate == probe.arg[2]
        IN  IF ~Parse(startDate).err /\ ~Parse(endDate).err /\ startDate <= endDate
            THEN ~probe.out.err /\ IsDaySeries(probe.out.dates, startDate, endDate)
            ELSE probe.out.err /\ probe.out.dates = << >>

\* The samples of the rectangle params, numbered <<i, j>> by their latitude
\* step i and their longitude step j, as C12 counts them.
SampleGrid(params) ==
    (0..(Abs(params.ELat - params.SLat) \div params.Step))
      \X (0..(Abs(params.ELon - params.SLon) \div params.Step))

\* The latitude and the longitude of sample s, stepping from the start
\* toward the end, kept on the globe.
SampleLat(params, s) ==
    LET lat == IF params.ELat >= params.SLat THEN params.SLat + s[1] * params.Step
               ELSE params.SLat - s[1] * params.Step
    IN  IF lat > Deg(90) THEN Deg(90) ELSE IF lat < -Deg(90) THEN -Deg(90) ELSE lat

SampleLon(params, s) ==
    LET lon == IF params.ELon >= params.SLon THEN params.SLon + s[2] * params.Step
               ELSE params.SLon - s[2] * params.Step
    IN  IF lon > Deg(180) THEN lon - Deg(360)
        ELSE IF lon < -Deg(180) THEN lon + Deg(360)
        ELSE lon

\* Sample a is generated before sample b: latitude outside, longitude inside.
Before(a, b) == a[1] < b[1] \/ (a[1] = b[1] /\ a[2] < b[2])

\* C12: on a record with non-empty arrays and a step above 0,
\* readAndParseRangeFile visits (floor(|elat-slat|/step)+1) times
\* (floor(|elon-slon|/step)+1) samples, latitude outside and longitude
\* inside, from start toward end in either direction; the samples whose
\* index is within both arrays are appended with their values in the order
\* of generation, the others are skipped, the four arrays have one length,
\* and the call fails only if no sample was valid.  The single sample
\* (10, 10) on all-zero arrays gives one coordinate with u = 0 and v = 0.
RangeQueryShape ==
    (/\ probe.fn = "readAndParseRangeFile"
     /\ probe.done
     /\ Unmarshal(probe.arg[1].data).U.len > 0
     /\ Unmarshal(probe.arg[1].data).V.len > 0
     /\ probe.arg[2].Step > 0) =>
        LET data == Unmarshal(probe.arg[1].data)
            params == probe.arg[2]
            out == probe.out
            index(s) == GetIndexForCoord(SampleLat(params, s), SampleLon(params, s)).index
            valid == { s \in SampleGrid(params) :
                         index(s) >= 0 /\ index(s) < data.U.len /\ index(s) < data.V.len }
            rank(s) == Cardinality({ t \in valid : Before(t, s) }) + 1
        IN  /\ out.err <=> valid = {}
            /\ Len(out.U) = Cardinality(valid)
            /\ Len(out.V) = Len(out.U)
            /\ Len(out.Lats) = Len(out.U)
            /\ Len(out.Lons) = Len(out.U)
            /\ \A s \in valid :
                 /\ out.Lats[rank(s)] = SampleLat(params, s)
                 /\ out.Lons[rank(s)] = SampleLon(params, s)
                 /\ out.U[rank(s)] = At(data.U, index(s))
                 /\ out.V[rank(s)] = At(data.V, index(s))
            /\ (/\ data.U = ZeroArr
                /\ data.V = ZeroArr
                /\ params = RangeParams(Deg(10), Deg(10), Deg(10), Deg(10), Deg(1)))
               => out = [err |-> FALSE, U |-> <<0>>, V |-> <<0>>,
                         Lats |-> <<Deg(10)>>, Lons |-> <<Deg(10)>>]

\* A rectangle asked for from its far corner back has returned some of its
\* samples and skipped others.
SomeSamplesSkipped ==
    /\ probe.fn = "readAndParseRangeFile"
    /\ probe.done
    /\ probe.arg[2].ELat < probe.arg[2].SLat
    /\ probe.arg[2].ELon < probe.arg[2].SLon
    /\ ~probe.out.err
    /\ Len(probe.out.U) > 1
    /\ Len(probe.out.U) < Cardinality(SampleGrid(probe.arg[2]))

\* The point (10, 10) of a record of zeros has been read.
StillAirAtTenTen ==
    /\ probe.fn = "readAndParseRangeFile"
    /\ probe.done
    /\ probe.arg = <<FileOf(Marshal(ZeroArr, ZeroArr)),
                     RangeParams(Deg(10), Deg(10), Deg(10), Deg(10), Deg(1))>>
    /\ probe.out.U = <<0>>

\* The distance of two coordinates.
Dist(a, b) == IF a >= b THEN a - b ELSE b - a

\* The most whole turns a longitude asked for is away from the grid's.
MaxTurns == 3

\* C13: for every latitude in [-90, 90] and every longitude,
\* GetIndexForCoord returns no error and an index in [0, TotalPoints) that
\* is row * Ni + column, with the row in [0, Nj - 1] and the column in
\* [0, Ni - 1] those of a nearest grid point; and TotalPoints = Ni * Nj.
MapperTotalInRange ==
    /\ TotalPoints = Ni * Nj
    /\ (/\ probe.fn = "GetIndexForCoord"
        /\ probe.done
        /\ -Deg(90) <= probe.arg[1]
        /\ probe.arg[1] <= Deg(90)) =>
           /\ ~probe.out.err
           /\ probe.out.index >= 0
           /\ probe.out.index < TotalPoints
           /\ LET row == probe.out.index \div Ni
                  column == probe.out.index % Ni
              IN
                /\ row \in 0..(Nj - 1)
                /\ column \in 0..(Ni - 1)
                /\ probe.out.index = row * Ni + column
                /\ 2 * Dist(LatFirst - row * LatStep, probe.arg[1]) <= LatStep
                /\ \E turn \in -MaxTurns..MaxTurns :
                     2 * Dist(LonFirst + column * LonStep + turn * Deg(360), probe.arg[2])
                       <= LonStep

\* A point an eighth of a degree west of the date line, at the south pole,
\* has been mapped: its column rounds up to Ni.
LastRowRoundsUp ==
    /\ probe.fn = "GetIndexForCoord"
    /\ probe.done
    /\ probe.arg = <<-Deg(90), Deg(180) - 1>>
    /\ probe.out.index = (Nj - 1) * Ni

\* C14: for every latitude and every longitude L, GetIndexForCoord(lat, L)
\* and GetIndexForCoord(lat, L + 360) return the same index, also for a
\* negative L and for an L whose offset from the origin at 180 degrees
\* rounds up to the full circle, which is column 0.
LongitudeWrap ==
    (probe.fn = "GetIndexForCoord" /\ probe.done) =>
        /\ probe.out = GetIndexForCoord(probe.arg[1], probe.arg[2] + Deg(360))
        /\ probe.out = GetIndexForCoord(probe.arg[1], probe.arg[2] - Deg(360))
        /\ (2 * Mod(probe.arg[2] - LonFirst, Deg(360)) \in {-LonStep, 2 * Deg(360) - LonStep})
             => probe.out.index % Ni = 0

\* A negative longitude an eighth of a degree short of the origin has been
\* mapped to column 0.
NegativeRoundsUpToColumnZero ==
    /\ probe.fn = "GetIndexForCoord"
    /\ probe.done
    /\ probe.arg[2] = -Deg(180) - 1
    /\ ~probe.out.err
    /\ probe.out.index % Ni = 0

\* C15: for every longitude, a latitude above 90 maps to the index of
\* latitude 90, in row 0, and a latitude below -90 maps to the index of
\* latitude -90, in row Nj - 1; GetIndexForCoord holds the row between the
\* poles and does not fail.
PoleClamp ==
    (probe.fn = "GetIndexForCoord" /\ probe.done) =>
        /\ probe.arg[1] > Deg(90) =>
             /\ ~probe.out.err
             /\ probe.out = GetIndexForCoord(Deg(90), probe.arg[2])
             /\ probe.out.index \div Ni = 0
        /\ probe.arg[1] < -Deg(90) =>
             /\ ~probe.out.err
             /\ probe.out = GetIndexForCoord(-Deg(90), probe.arg[2])
             /\ probe.out.index \div Ni = Nj - 1

\* Latitude 91 and latitude -91 have been mapped without an error.
BeyondThePole ==
    /\ probe.fn = "GetIndexForCoord"
    /\ probe.done
    /\ probe.arg[1] \in {Deg(91), -Deg(91)}
    /\ ~probe.out.err

\* C16: whichever way fetchAndProcessGribChunk returns (range reader,
\* temporary file, copy, close or decoder failed, or success), the removal
\* of the temporary file it created has been attempted before it returns,
\* and a file it created is there afterwards only if the system refused
\* that removal.
TempFilesReleased ==
    (probe.fn = "fetchAndProcessGribChunk" /\ probe.done) =>
        /\ probe.out.created => probe.out.removeAttempted
        /\ probe.out.remains => ~probe.arg[2]["os.Remove"]
        /\ ~probe.out.created => ~probe.out.remains

\* The copy into the temporary file failed and the file is gone.
RemovedAfterCopyFailure ==
    /\ probe.fn = "fetchAndProcessGribChunk"
    /\ probe.done
    /\ probe.out.stage = "io.Copy"
    /\ probe.out.created
    /\ probe.out.removeAttempted
    /\ ~probe.out.remains

\* An index document of well-formed lines none of which has param 10u or
\* 10v and levtype sfc.
NoDescriptor(doc) ==
    \A k \in 1..Len(doc) :
        /\ doc[k].json
        /\ doc[k].param # "<absent>"
        /\ ~(doc[k].param \in {"10u", "10v"} /\ doc[k].levtype = "sfc")

\* C17: when the index document has no line with param 10u or 10v and
\* levtype sfc (the empty document too), parseIndexResponse fails, and the
\* acquisition ends there, before a storage client is made or a byte range
\* is asked for.
EmptyIndexIsResolverError ==
    /\ (/\ probe.fn = "parseIndexResponse"
        /\ probe.done
        /\ NoDescriptor(probe.arg)) => probe.out.st = "err"
    /\ (/\ probe.fn = "downloadAndSave"
        /\ probe.done
        /\ probe.arg.indexOk
        /\ NoDescriptor(probe.arg.doc)) => probe.out = Failed("parseIndexResponse")

\* The decoder outputs whose shape C18 calls a deviation.
ShapeDeviations == {"nomessages", "emptyfirst", "novalues", "nonfloat"}

\* C18: a decoder output without a "messages" array, with an empty first
\* element, without a record of key "values", or with a value that is no
\* floating-point number makes unwarpGribRawJsonValue report an error for
\* the chunk and downloadAndSave return an error, so that no artifact is
\* written for the run.
ShapeDeviationsAreFatal ==
    /\ (/\ probe.fn = "unwarpGribRawJsonValue"
        /\ probe.done
        /\ probe.arg.kind \in ShapeDeviations) => probe.out.st = "err"
    /\ (/\ probe.fn = "downloadAndSave"
        /\ probe.done
        /\ probe.arg.indexOk
        /\ probe.arg.clientOk
        /\ parseIndexResponse(probe.arg.doc) = [st |-> "ok", chunks |-> <<"10u", "10v">>]
        /\ probe.arg.chunk["10u"].kind \in ShapeDeviations
        /\ probe.arg.chunk["10v"].kind # "fetcherr") => probe.out.st = "err"

\* The positions of a caller inside loadFileToCache: its reads of the file,
\* and downloadAndSave with its network calls, its decoder and its write.
InLoad == {"loadFileToCache", "reread", "downloadAndSave", "os.Create", "file.Write"}

\* C19: in every reachable state a caller inside loadFileToCache holds
\* cacheMutex neither in shared nor in exclusive mode; the lock is held
\* only at the lookup, at the insertion and at the reset of the map.
LockNotHeldAcrossLoad ==
    \A r \in Requests :
        /\ req[r].pc \in InLoad => (r \notin readers /\ writer # r)
        /\ r \in readers => req[r].pc = "lookup"
        /\ writer = r => req[r].pc \in {"insert", "clear"}

\* While one caller's acquisition is under way, another caller holds the
\* lock for its lookup or for a reset of the map.
LockTakenDuringAcquisition ==
    \E r \in Requests, q \in Requests :
        /\ r # q
        /\ req[r].op = "DateRangeQuery"
        /\ req[r].pc \in {"downloadAndSave", "os.Create", "file.Write"}
        /\ (q \in readers \/ writer = q)

\* C20: on a miss of getOrLoadFileCache, any failure to read or to parse the
\* persisted artifact (missing or unreadable file, malformed JSON, empty
\* arrays) is followed by an acquisition via downloadAndSave, as it is in
\* SingleQuery and RangeQuery.
MissPathAcquiresOnAnyFailure ==
    [][\A r \in Requests :
        (/\ req[r].pc = "loadFileToCache"
         /\ req'[r] # req[r]
         /\ LET rd == ReadFile(disk[PathOf(req[r])])
            IN  rd.err # "" \/ ParseToCache(rd.content).err)
          => req'[r].pc = "downloadAndSave"]_vars

\* The run of downloadAndSave that returned in the last step was the last
\* of two or more runs for one path whose writes overlapped, which all
\* wrote the same content, and no call on a file was refused.
LastOfRedundantWriters ==
    /\ dlReturn.ret = "nil"
    /\ dlReturn.lastWriter
    /\ Len(dlReturn.group) >= 2
    /\ \A k \in 1..Len(dlReturn.group) : dlReturn.group[k] = dlReturn.group[1]
    /\ faults = 0

\* C21: when the last of two or more concurrent runs of downloadAndSave for
\* one run key that all obtained the same decoded content and all completed
\* their write has finished, the artifact is complete and holds the content
\* a single run would have written, and a read that starts then parses it.
RedundantAcquisitionSafe ==
    LastOfRedundantWriters =>
        /\ disk[dlReturn.path] =
             FileOf(Marshal(dlReturn.group[1][1], dlReturn.group[1][2]))
        /\ ~ParseToCache(ReadFile(disk[dlReturn.path]).content).err

\* The same for content that holds values in both arrays.
RedundantAcquisitionSafeWithValues ==
    (/\ LastOfRedundantWriters
     /\ dlReturn.group[1][1].len > 0
     /\ dlReturn.group[1][2].len > 0) =>
        /\ disk[dlReturn.path] =
             FileOf(Marshal(dlReturn.group[1][1], dlReturn.group[1][2]))
        /\ ~ParseToCache(ReadFile(disk[dlReturn.path]).content).err

\* Two overlapping runs wrote the full arrays and the last has returned.
RedundantWritersDone ==
    /\ LastOfRedundantWriters
    /\ dlReturn.group[1][1].len = TotalPoints

\* Request r is at the insertion of getOrLoadFileCache after a load of its
\* key that succeeded.
InsertsLoaded(r) ==
    /\ req[r].pc = "insert"
    /\ req[r].cache # NoCache
    /\ Len(req[r].reads) > 0
    /\ req[r].reads[Len(req[r].reads)] = "ok"

\* C22: an entry comes into fileCache only by the insertion of a
\* getOrLoadFileCache call whose load of that key succeeded; an entry goes
\* only in a step that empties the whole map, the overflow clear before an
\* insertion or ClearDateRangeCache; no step drops one entry and keeps
\* others; and when ClearDateRangeCache returns the map is empty.
CacheEntryLifecycle ==
    /\ []((response.op = "ClearDateRangeCache" /\ response.pc = "done")
            => fileCache = << >>)
    /\ [][ /\ \A p \in Paths :
               (p \in DOMAIN fileCache' /\
                  (p \notin DOMAIN fileCache \/ fileCache'[p] # fileCache[p]))
                 => \E r \in Requests :
                      /\ InsertsLoaded(r)
                      /\ PathOf(req[r]) = p
                      /\ fileCache'[p] = req[r].cache
                      /\ req'[r].pc # "insert"
           /\ \A p \in Paths :
               (p \in DOMAIN fileCache /\ p \notin DOMAIN fileCache')
                 => \/ /\ fileCache' = << >>
                       /\ \E r \in Requests : req[r].pc = "clear" /\ req'[r].pc # "clear"
                    \/ \E r \in Requests :
                         /\ InsertsLoaded(r)
                         /\ Cardinality(DOMAIN fileCache) >= maxCacheSize
                         /\ DOMAIN fileCache' = {PathOf(req[r])} ]_vars

\* ClearDateRangeCache has returned and has emptied a map into which a
\* series that is still running had inserted its first day.
EntryGoneByReset ==
    /\ response.op = "ClearDateRangeCache"
    /\ response.pc = "done"
    /\ fileCache = << >>
    /\ \E r \in Requests :
         /\ req[r].op = "DateRangeQuery"
         /\ Len(req[r].loaded) >= 1
         /\ req[r].loaded[1] # NoCache

\* What request r holds after its step: its locals, or what it returned.
Outcome(r) == IF req'[r].pc = "idle" THEN response' ELSE req'[r]

\* C23: when getOrLoadFileCache finds the key in fileCache it returns the
\* stored record; it does not read the artifact, does not call
\* downloadAndSave and leaves fileCache and the files as they are, whatever
\* has become of the artifact since.
HitHasNoSideEffects ==
    [][\A r \in Requests :
        (/\ req[r].pc = "lookup"
         /\ req'[r] # req[r]
         /\ PathOf(req[r]) \in DOMAIN fileCache)
          => /\ fileCache' = fileCache
             /\ disk' = disk
             /\ dlReturn' = NoReturn
             /\ Outcome(r).pc \in {"RLock", "done"}
             /\ Outcome(r).reads = << >>
             /\ Outcome(r).ndl = 0
             /\ Outcome(r).loaded = Append(req[r].loaded, fileCache[PathOf(req[r])])
             /\ Outcome(r).ODates = Append(req[r].ODates, req[r].date)
      ]_vars

\* A series has taken its first day from fileCache while the artifact of
\* that day cannot be read or parsed, or holds another record.
HitOnLostArtifact ==
    \E r \in Requests :
        /\ req[r].op = "DateRangeQuery"
        /\ Len(req[r].loaded) = 1
        /\ req[r].loaded[1] = WarmEntry(FilePath(FirstDate, req[r].batch))
        /\ req[r].reads = << >>
        /\ req[r].pc = "RLock"
        /\ fileCache = [p \in {FilePath(FirstDate, req[r].batch)} |-> WarmEntry(p)]
        /\ disk[FilePath(FirstDate, req[r].batch)] # Artifact(FilePath(FirstDate, req[r].batch))
        /\ served = MaxRequests

\* The index path and the object name of a run of the variant v.
IndexPathOf(date, batch, v) ==
    "/ecmwf-open-data/" \o DateText(date) \o "/" \o batch \o "/ifs/0p25/" \o v \o "/"
        \o DateText(date) \o SubSeq(batch, 1, 2) \o "0000-0h-" \o v \o "-fc.index"

ObjectNameOf(date, batch, v) ==
    DateText(date) \o "/" \o batch \o "/ifs/0p25/" \o v \o "/"
        \o DateText(date) \o SubSeq(batch, 1, 2) \o "0000-0h-" \o v \o "-fc.grib2"

QueryReturned == probe.fn = "queryIndex" /\ probe.done

\* For a batch of the two groups, the index path and the object name carry
\* the same variant, "oper" for 00z and 12z, "scda" for 06z and 18z, and
\* the index of that path is what is asked of the remote side.
VariantOfValidBatch ==
    (QueryReturned /\ probe.arg[2] \in ValidBatches) =>
        LET v == IF probe.arg[2] \in {"00z", "12z"} THEN "oper" ELSE "scda"
        IN  /\ probe.out.IndexPath = IndexPathOf(probe.arg[1], probe.arg[2], v)
            /\ probe.out.objectName = ObjectNameOf(probe.arg[1], probe.arg[2], v)
            /\ probe.out.requests =
                   << "https://storage.googleapis.com" \o probe.out.IndexPath >>

\* C24: downloadAndSave builds the index path and the object name from the
\* same variant segment, "oper" exactly for 00z and 12z, "scda" exactly for
\* 06z and 18z; for a batch outside these four nothing is asked of the
\* remote side and the call fails.
BatchDependentVariant ==
    /\ VariantOfValidBatch
    /\ (QueryReturned /\ probe.arg[2] \notin ValidBatches) =>
            /\ probe.out.requests = << >>
            /\ probe.out.err # ""

\* A run for the batch 03z has asked for the root of the remote host.
InvalidBatchQueried ==
    /\ QueryReturned
    /\ probe.arg[2] = "03z"
    /\ probe.out.requests = << "https://storage.googleapis.com" >>

\* The read of the artifact that request r is about to make fails, or gives
\* content that loadFileToCache refuses: an error other than "not exist"
\* at the first read, any error at the read after the download, text that
\* does not parse, an empty array.
ReadFails(r) ==
    LET rd == ReadFile(disk[PathOf(req[r])])
    IN  \/ req[r].pc = "loadFileToCache" /\ rd.err = "other"
        \/ req[r].pc = "reread" /\ rd.err # ""
        \/ /\ req[r].pc \in {"loadFileToCache", "reread"}
           /\ rd.err = ""
           /\ ParseToCache(rd.content).err

\* This step ends request r's call of loadFileToCache with an error.
LoadFails(r) ==
    /\ req[r].op = "DateRangeQuery"
    /\ req'[r] # req[r]
    /\ \/ ReadFails(r)
       \/ dlReturn'.r = r /\ dlReturn'.ret = "err"

\* What a step of request r does when its load fails, and when its lookup
\* misses.
FailedLoadStep(r) ==
    /\ LoadFails(r) =>
          (/\ fileCache' = fileCache
           /\ writer' = writer
           /\ writer # r
           /\ Outcome(r).pc \in {"RLock", "done"}
           /\ Outcome(r).loaded = Append(req[r].loaded, NoCache)
           /\ Outcome(r).U = Append(req[r].U, 0)
           /\ Outcome(r).V = Append(req[r].V, 0))
    /\ (/\ req[r].pc = "lookup"
        /\ req'[r] # req[r]
        /\ PathOf(req[r]) \notin DOMAIN fileCache)
          => (req'[r].pc = "loadFileToCache" /\ req'[r].date = req[r].date)

\* C25: a step in which loadFileToCache returns an error leaves fileCache
\* as it was, with no entry inserted for the key and none evicted; the
\* caller does not go on to take the exclusive lock but gets the error
\* (the series has zeros for the date); and a lookup that misses, after a
\* failure as at any time, goes on to load.
FailedLoadLeavesCache == [][\A r \in Requests : FailedLoadStep(r)]_vars

\* One caller's load of a day has just failed after the day before was
\* loaded and cached, the cache still holds that entry and none for the
\* failed day, and another caller has missed the failed day and is loading
\* it again.
LoadRetriedAfterFailure ==
    \E r \in Requests, q \in Requests :
        /\ r # q
        /\ req[r].op = "DateRangeQuery"
        /\ Len(req[r].loaded) = 2
        /\ req[r].loaded[1] # NoCache
        /\ req[r].loaded[2] = NoCache
        /\ fileCache # << >>
        /\ FilePath(req[r].ODates[2], req[r].batch) \notin DOMAIN fileCache
        /\ req[q].op = "DateRangeQuery"
        /\ req[q].pc = "loadFileToCache"
        /\ req[q].date = req[r].ODates[2]

\* Run keys with an 8-digit date and one of the four batches: the days of
\* the series and days that share a month, a day or a year with them.
RunKeys == (Dates \cup {20240128, 20241228, 20230228, 20240301}) \X ValidBatches

\* The path written for a run key is the path read for it, and distinct run
\* keys have distinct paths.
PathIsFunctionOfKey ==
    /\ \A k \in RunKeys : FilePath(k[1], k[2]) = ReadPath(k[1], k[2])
    /\ \A k1 \in RunKeys, k2 \in RunKeys :
          ReadPath(k1[1], k1[2]) = ReadPath(k2[1], k2[2]) => k1 = k2

\* Every request writes, reads and caches under one path.
RequestPathShared ==
    \A r \in Requests :
        req[r].pc # "idle" => SavePathOf(req[r]) = PathOf(req[r])

\* A step changes the artifact at p only as a write of a request whose key
\* is p's, and puts or changes the entry at p only as the insertion of a
\* request whose key is p's.
OwnArtifactOnly ==
    \A p \in Paths :
        /\ disk'[p] # disk[p] =>
              \E r \in Requests :
                  /\ req[r].pc \in InWriteFile
                  /\ <<req[r].date, req[r].batch>> = KeyOf(p)
                  /\ \A o \in Paths \ {p} : disk'[o] = disk[o]
        /\ (p \in DOMAIN fileCache' /\
               (p \notin DOMAIN fileCache \/ fileCache'[p] # fileCache[p])) =>
              \E r \in Requests :
                  /\ req[r].pc = "insert"
                  /\ <<req[r].date, req[r].batch>> = KeyOf(p)
                  /\ \A o \in (DOMAIN fileCache') \ {p} :
                        o \in DOMAIN fileCache /\ fileCache'[o] = fileCache[o]

\* C26: the path downloadAndSave writes for a (date, batch) is the path
\* SingleQuery, RangeQuery and DateRangeQuery read and the key of
\* fileCache; two distinct run keys with an 8-digit date and a batch among
\* 00z, 06z, 12z, 18z never have the same path; so an acquisition for one
\* key creates or changes no artifact and no cache entry of another key.
ArtifactLocationShared ==
    /\ [](PathIsFunctionOfKey /\ RequestPathShared)
    /\ [][OwnArtifactOnly]_vars

\* A request is writing the artifact of one day, has written part of it,
\* while the artifact and the cache entry of another day are in place.
WritesBesideOtherKey ==
    \E r \in Requests, o \in Paths :
        /\ req[r].pc = "file.Write"
        /\ req[r].wpos > 0
        /\ o # SavePathOf(req[r])
        /\ o \in DOMAIN fileCache
        /\ disk[o] = Artifact(o)
        /\ disk[SavePathOf(req[r])] # Artifact(SavePathOf(req[r]))

====
